---- MODULE Spec2Model ----
(***************************************************************************)
(* A model of tauri-inliner-rs: one pass of inline_html_string over a      *)
(* document (src/src/lib.rs, src/src/binary.rs, src/src/js_css.rs).        *)
(* Text is modelled as TLA+ strings, taken apart with Len, SubSeq and \o,  *)
(* so that the regular expressions of the source are computed on the       *)
(* characters they see.                                                    *)
(***************************************************************************)
EXTENDS Integers, Sequences, FiniteSets, TLC

VARIABLES
  config,     \* Config { inline_fonts, inline_remote, max_inline_size }
  html,       \* the document as parsed: a sequence of element nodes
  doc,        \* the document being rewritten
  cache,      \* HashMap<String, Option<String>> of the pass
  log,        \* ghost: every fs::read and HTTP GET load_path has issued
  pc,         \* "media" | "script" | "done"
  idx,        \* position of the running loop
  targets,    \* node ids collected by inline_script_link before it rewrites
  result,     \* "running" | "ok" | "err": what inline_html_string returns
  css_in,     \* input of the compress_css harness
  css_once,   \* compress_css(css_in)
  css_twice,  \* compress_css(compress_css(css_in))
  css_pc,     \* 0, 1, 2: how often the harness has applied compress_css
  entry,      \* the href inline_css_path is first called with
  stack,      \* the calls of inline_css that have not returned, outermost first
  call,       \* the arguments of the call of inline_css_path about to run
  ret,        \* the Result the last call of inline_css_path has returned
  imp_pc,     \* "idle" | "call" | "scan" | "return" | "done"
  res_path,   \* css_path of the CSS the address harness resolves in
  res_ref,    \* the reference the address harness resolves
  import_addr,  \* the url_path the @import closure computes for it
  url_addr    \* the url_path the url() closure computes for it

vars == <<config, html, doc, cache, log, pc, idx, targets, result,
          css_in, css_once, css_twice, css_pc,
          entry, stack, call, ret, imp_pc,
          res_path, res_ref, import_addr, url_addr>>
passVars == <<config, html, doc, cache, log, pc, idx, targets, result>>
cssVars == <<css_in, css_once, css_twice, css_pc>>
impVars == <<entry, stack, call, ret, imp_pc>>
resVars == <<res_path, res_ref, import_addr, url_addr>>

(***************************************************************************)
(* Bounds of the model.                                                    *)
(***************************************************************************)
MaxLen == 5
MaxElems == 2
SmallMax == 3
LargeMax == 40
MaxDepth == 6

(***************************************************************************)
(* Strings.                                                                *)
(***************************************************************************)
\* The characters Rust's \s and str::trim treat as white space (ASCII part).
WhiteSpace == {" ", "\t", "\n", "\r", "\f"}

Ch(s, i) == SubSeq(s, i, i)
From(s, i) == SubSeq(s, i, Len(s))
StartsAt(s, i, p) == i + Len(p) - 1 <= Len(s) /\ SubSeq(s, i, i + Len(p) - 1) = p
starts_with(s, p) == StartsAt(s, 1, p)
ends_with(s, p) == Len(p) <= Len(s) /\ SubSeq(s, Len(s) - Len(p) + 1, Len(s)) = p

\* The end (exclusive) of the maximal run of white space that starts at i.
RECURSIVE WsEnd(_, _)
WsEnd(s, i) == IF i <= Len(s) /\ Ch(s, i) \in WhiteSpace THEN WsEnd(s, i + 1) ELSE i

\* The first position >= i where p starts, or 0.
RECURSIVE Find(_, _, _)
Find(s, i, p) ==
  IF i + Len(p) - 1 > Len(s) THEN 0
  ELSE IF StartsAt(s, i, p) THEN i ELSE Find(s, i + 1, p)

\* str::replace(pat, rep), and Regex::replace_all of a literal pattern: every
\* non-overlapping occurrence, left to right.
RECURSIVE ReplaceFrom(_, _, _, _)
ReplaceFrom(s, i, pat, rep) ==
  IF i > Len(s) THEN ""
  ELSE IF StartsAt(s, i, pat) THEN rep \o ReplaceFrom(s, i + Len(pat), pat, rep)
  ELSE Ch(s, i) \o ReplaceFrom(s, i + 1, pat, rep)
replace(s, pat, rep) == ReplaceFrom(s, 1, pat, rep)

RECURSIVE TrimEnd(_)
TrimEnd(s) ==
  IF Len(s) > 0 /\ Ch(s, Len(s)) \in WhiteSpace THEN TrimEnd(SubSeq(s, 1, Len(s) - 1)) ELSE s
trim(s) == TrimEnd(From(s, WsEnd(s, 1)))

(***************************************************************************)
(* compress_css: seven replace_all passes, in the order of the source.     *)
(***************************************************************************)
\* (\s+) -> " "
RECURSIVE CollapseWs(_, _)
CollapseWs(s, i) ==
  IF i > Len(s) THEN ""
  ELSE IF Ch(s, i) \in WhiteSpace THEN " " \o CollapseWs(s, WsEnd(s, i))
  ELSE Ch(s, i) \o CollapseWs(s, i + 1)

\* :(\s+) -> ":"
RECURSIVE ColonWs(_, _)
ColonWs(s, i) ==
  IF i > Len(s) THEN ""
  ELSE IF Ch(s, i) = ":" /\ WsEnd(s, i + 1) > i + 1 THEN ":" \o ColonWs(s, WsEnd(s, i + 1))
  ELSE Ch(s, i) \o ColonWs(s, i + 1)

\* The first position >= j of character c with no line feed before it, or 0:
\* where a lazy .*? followed by c stops ("." does not match a line feed).
RECURSIVE CharOnLine(_, _, _)
CharOnLine(s, j, c) ==
  IF j > Len(s) THEN 0
  ELSE IF Ch(s, j) = c THEN j
  ELSE IF Ch(s, j) = "\n" THEN 0 ELSE CharOnLine(s, j + 1, c)

\* /\*.*?\* -> "": the pattern has no closing "/", which stays in the text.
RECURSIVE CommentFragments(_, _)
CommentFragments(s, i) ==
  IF i > Len(s) THEN ""
  ELSE IF StartsAt(s, i, "/*") /\ CharOnLine(s, i + 2, "*") > 0
       THEN CommentFragments(s, CharOnLine(s, i + 2, "*") + 1)
  ELSE Ch(s, i) \o CommentFragments(s, i + 1)

\* (\n+) -> ""
RECURSIVE DropLf(_, _)
DropLf(s, i) ==
  IF i > Len(s) THEN ""
  ELSE IF Ch(s, i) = "\n" THEN DropLf(s, i + 1)
  ELSE Ch(s, i) \o DropLf(s, i + 1)

compress_css(css) ==
  LET r1 == CollapseWs(css, 1)
      r2 == ColonWs(r1, 1)
      r3 == CommentFragments(r2, 1)
      r4 == replace(r3, "} ", "}")
      r5 == replace(r4, " {", "{")
      r6 == replace(r5, "; ", ";")
  IN DropLf(r6, 1)

(***************************************************************************)
(* The compress_css harness: every string over CssAlphabet of at most      *)
(* MaxLen characters is minified once, and the result minified again.      *)
(***************************************************************************)
CssAlphabet == {" ", "\n", ":", "/", "*", "{", "}", ";", "a"}

RECURSIVE StringsUpTo(_)
StringsUpTo(n) ==
  IF n = 0 THEN {""}
  ELSE LET shorter == StringsUpTo(n - 1)
       IN shorter \cup {s \o c : s \in {t \in shorter : Len(t) = n - 1}, c \in CssAlphabet}

CssInit ==
  /\ css_in \in StringsUpTo(MaxLen)
  /\ css_once = ""
  /\ css_twice = ""
  /\ css_pc = 0

Minify ==
  /\ css_pc = 0
  /\ css_once' = compress_css(css_in)
  /\ css_pc' = 1
  /\ UNCHANGED <<css_in, css_twice>>

MinifyAgain ==
  /\ css_pc = 1
  /\ css_twice' = compress_css(css_once)
  /\ css_pc' = 2
  /\ UNCHANGED <<css_in, css_once>>

(***************************************************************************)
(* Option and Result values.                                               *)
(***************************************************************************)
None == [some |-> FALSE]
Some(v) == [some |-> TRUE, val |-> v]
Ok(v) == [ok |-> TRUE, val |-> v]
Err(e) == [ok |-> FALSE, err |-> e]

(***************************************************************************)
(* Addresses: Url::parse, Url::join and PathBuf::join on the shapes the    *)
(* model's references take (lower-case scheme and host, a non-empty path,  *)
(* no dot segments), where Url's serialisation reproduces its input.       *)
(***************************************************************************)
AlphaChars == "abcdefghijklmnopqrstuvwxyzABCDEFGHIJKLMNOPQRSTUVWXYZ"
SchemeChars == "abcdefghijklmnopqrstuvwxyzABCDEFGHIJKLMNOPQRSTUVWXYZ0123456789+-."
CharsOf(t) == {Ch(t, k) : k \in 1..Len(t)}

\* The last position of character c in s, or 0.
RECURSIVE LastIndex(_, _, _)
LastIndex(s, i, c) ==
  IF i = 0 THEN 0 ELSE IF Ch(s, i) = c THEN i ELSE LastIndex(s, i - 1, c)

\* Url::parse(s).is_ok(): s opens with a scheme and a colon.
IsUrl(s) ==
  LET c == Find(s, 1, ":")
  IN /\ c > 1
     /\ Ch(s, 1) \in CharsOf(AlphaChars)
     /\ \A k \in 2..(c - 1) : Ch(s, k) \in CharsOf(SchemeChars)

\* The end of "scheme://host" in URL u: the position before the path's "/".
UrlOriginEnd(u) ==
  LET a == Find(u, 1, "://")
      p == IF a = 0 THEN 0 ELSE Find(u, a + 3, "/")
  IN IF p = 0 THEN Len(u) ELSE p - 1

\* base.join(ref) for a base URL: an absolute reference replaces the base, a
\* reference that opens with "/" replaces its path, any other replaces the
\* last segment of its path.
UrlJoin(base, ref) ==
  IF IsUrl(ref) THEN ref
  ELSE IF ref = "" THEN base
  ELSE IF starts_with(ref, "/") THEN SubSeq(base, 1, UrlOriginEnd(base)) \o ref
  ELSE LET q == IF Find(base, 1, "?") > 0 THEN SubSeq(base, 1, Find(base, 1, "?") - 1) ELSE base
           slash == LastIndex(q, Len(q), "/")
       IN IF slash > UrlOriginEnd(q) THEN SubSeq(q, 1, slash) \o ref
          ELSE SubSeq(q, 1, UrlOriginEnd(q)) \o "/" \o ref

\* PathBuf::join: an absolute path replaces the base; nothing is normalised.
PathJoin(base, p) ==
  IF starts_with(p, "/") THEN p
  ELSE IF ends_with(base, "/") THEN base \o p
  ELSE base \o "/" \o p

\* path.split('.').last(): the text after the last ".", or all of it.
Extension(path) == From(path, LastIndex(path, Len(path), ".") + 1)

(***************************************************************************)
(* base64::encode, on the bytes of printable ASCII text.                   *)
(***************************************************************************)
\* ASCII 32..95 and 97..126, in order.
PrintableLow == " !\"#$%&'()*+,-./0123456789:;<=>?@ABCDEFGHIJKLMNOPQRSTUVWXYZ[\\]^_"
PrintableHigh == "abcdefghijklmnopqrstuvwxyz{|}~"
Base64Chars == "ABCDEFGHIJKLMNOPQRSTUVWXYZabcdefghijklmnopqrstuvwxyz0123456789+/"
Byte(c) ==
  IF c \in CharsOf(PrintableHigh)
  THEN 96 + CHOOSE k \in 1..Len(PrintableHigh) : Ch(PrintableHigh, k) = c
  ELSE 31 + CHOOSE k \in 1..Len(PrintableLow) : Ch(PrintableLow, k) = c
Sextet(n) == Ch(Base64Chars, n + 1)

RECURSIVE Base64From(_, _)
Base64From(raw, i) ==
  LET left == Len(raw) - i + 1
      b1 == Byte(Ch(raw, i))
      b2 == IF left >= 2 THEN Byte(Ch(raw, i + 1)) ELSE 0
      b3 == IF left >= 3 THEN Byte(Ch(raw, i + 2)) ELSE 0
  IN IF left <= 0 THEN ""
     ELSE Sextet(b1 \div 4) \o Sextet((b1 % 4) * 16 + b2 \div 16)
          \o (IF left >= 2 THEN Sextet((b2 % 16) * 4 + b3 \div 64) ELSE "=")
          \o (IF left >= 3 THEN Sextet(b3 % 64) ELSE "=")
          \o Base64From(raw, i + 3)
base64_encode(raw) == Base64From(raw, 1)

(***************************************************************************)
(* The world of a pass: the root directory, the files below it and the     *)
(* answers of the remote hosts.  A path that is no file fails to read; a   *)
(* URL no host answers fails to send.                                      *)
(***************************************************************************)
Root == "/r"

Files ==
  ("/r/a.css" :> "@import url(b.css);") @@
  ("/r/b.css" :> "body{color:red;}") @@
  ("/r/css/c.css" :> "@import url(d.css);") @@
  ("/r/css/d.css" :> "p{margin:0}") @@
  ("/r/u.css" :> "a{background:url(i.png)}") @@
  ("/r/i.png" :> "PNG") @@
  ("/r/big.png" :> "PNG8") @@
  ("/r/f.woff" :> "WF") @@
  ("/r/s.js" :> "x=1") @@
  ("/r/t.css" :> "@import 'a.css';@import 'd.css';") @@
  ("/r/loop.css" :> "@import url(loop.css);") @@
  ("/r/p.css" :> "@import 'q.css';") @@
  ("/r/q.css" :> "b{top:0}@import \"p.css\";")

Remote ==
  ("http://h/css/r.css" :>
     [status |-> 200, content_type |-> Some("text/css"), body |-> "@import 'n.css';"]) @@
  ("http://h/css/n.css" :> [status |-> 200, content_type |-> None, body |-> "i{top:0}"]) @@
  ("http://h/i.png" :> [status |-> 200, content_type |-> None, body |-> "PNG"]) @@
  ("http://h/f.woff?v=1" :> [status |-> 200, content_type |-> None, body |-> "WF"]) @@
  ("http://h/e.png" :> [status |-> 404, content_type |-> None, body |-> "404"])

\* content-type.json, the extension -> MIME type table.
content_type_map ==
  ("png" :> "image/png") @@ ("woff" :> "font/woff") @@ ("ico" :> "image/x-icon")

\* serde_json::Value::to_string of a string value: its JSON text, quoted.
JsonString(v) == "\"" \o v \o "\""

FONT_EXTENSIONS == {".eot", ".woff2", ".woff", ".tff"}

(***************************************************************************)
(* load_path and get.  st is the state a call threads through: the cache   *)
(* and the ghost log of reads and requests; via says which caller asked,   *)
(* for which reference of which CSS or document, and only labels the log.  *)
(***************************************************************************)
Via(by, base, ref) == [by |-> by, base |-> base, ref |-> ref]

Logged(st, kind, addr, key, via, outcome, size) ==
  [st EXCEPT !.log = Append(@, [kind |-> kind, addr |-> addr, key |-> key,
                                 by |-> via.by, base |-> via.base, ref |-> via.ref,
                                 outcome |-> outcome, size |-> size])]

\* A faulty variant, for comparison: the size check with >= for >.
TooBig_AtLeast(raw, cfg) == Len(raw) >= cfg.max_inline_size

\* raw.len() > config.max_inline_size
TooBig(raw, cfg) == Len(raw) > cfg.max_inline_size

\* A faulty variant, for comparison: the inline_remote test left out.
RemoteAllowed_Always(cfg) == TRUE

\* if config.inline_remote
RemoteAllowed(cfg) == cfg.inline_remote

\* Lines 119-149: the size check, then the encoding the extension selects.
Encode(path, raw, cfg) ==
  IF TooBig(raw, cfg) THEN None
  ELSE IF Extension(path) \in DOMAIN content_type_map
       THEN Some("data:" \o content_type_map[Extension(path)] \o ";base64," \o base64_encode(raw))
       ELSE Some(raw)

\* !config.inline_fonts && FONT_EXTENSIONS.iter().any(|f| path.ends_with(f))
FontFiltered(path, cfg) ==
  ~cfg.inline_fonts /\ \E f \in FONT_EXTENSIONS : ends_with(path, f)

\* Lines 79-96: a response's Content-Type against the one the extension implies.
ContentTypeMismatch(path, response) ==
  /\ response.content_type.some
  /\ LET expected == IF Extension(path) \in DOMAIN content_type_map
                     THEN JsonString(content_type_map[Extension(path)])
                     ELSE response.content_type.val
     IN response.content_type.val # expected

\* Ok(res), with the read or request that produced it logged.
Fetched(st, kind, addr, key, via, raw, res) ==
  [res |-> Ok(res),
   st |-> Logged(st, kind, addr, key, via, IF res.some THEN "content" ELSE "toobig", Len(raw))]

load_path(path, cfg, root_path, st, via) ==
  IF FontFiltered(path, cfg) THEN [res |-> Ok(None), st |-> st]
  ELSE IF IsUrl(path)
  THEN IF RemoteAllowed(cfg)
       THEN IF path \notin DOMAIN Remote
            THEN [res |-> Err("HttpRequest"),
                  st |-> Logged(st, "http", path, path, via, "error", 0)]
            ELSE IF ContentTypeMismatch(path, Remote[path])
            THEN [res |-> Ok(None), st |-> Logged(st, "http", path, path, via, "mismatch", 0)]
            ELSE Fetched(st, "http", path, path, via, Remote[path].body,
                         Encode(path, Remote[path].body, cfg))
       ELSE [res |-> Ok(None), st |-> st]
  ELSE IF PathJoin(root_path, path) \notin DOMAIN Files
  THEN [res |-> Err("Io"),
        st |-> Logged(st, "file", PathJoin(root_path, path), path, via, "error", 0)]
  ELSE Fetched(st, "file", PathJoin(root_path, path), path, via,
               Files[PathJoin(root_path, path)],
               Encode(path, Files[PathJoin(root_path, path)], cfg))

\* Regex \??#.* replaced by "": from the first "#", and a "?" right before it,
\* to the end of the line.
RECURSIVE query_replacer(_)
query_replacer(path) ==
  LET h == Find(path, 1, "#")
      start == IF h > 1 /\ Ch(path, h - 1) = "?" THEN h - 1 ELSE h
      lf == Find(path, h, "\n")
  IN IF h = 0 THEN path
     ELSE SubSeq(path, 1, start - 1)
          \o (IF lf = 0 THEN "" ELSE query_replacer(From(path, lf)))

\* cache.insert(path, res.clone())
CacheInsert(st, key, res) ==
  [st EXCEPT !.cache = [k \in DOMAIN @ \cup {key} |-> IF k = key THEN res ELSE @[k]]]

\* A faulty variant, for comparison: get hands load_path's Err to its caller.
Loaded_PropagatesErr(path, loaded) ==
  IF loaded.res.ok
  THEN [res |-> Ok(loaded.res.val), st |-> CacheInsert(loaded.st, path, loaded.res.val)]
  ELSE [res |-> loaded.res, st |-> loaded.st]

\* A faulty variant, for comparison: get takes a failed load for empty content.
Loaded_ErrAsEmpty(path, loaded) ==
  IF loaded.res.ok
  THEN [res |-> Ok(loaded.res.val), st |-> CacheInsert(loaded.st, path, loaded.res.val)]
  ELSE [res |-> Ok(Some("")), st |-> loaded.st]

\* Lines 170-179: what get makes of load_path's Result: Ok is cached and
\* returned, Err is logged and becomes Ok(None).
Loaded(path, loaded) ==
  IF loaded.res.ok
  THEN [res |-> Ok(loaded.res.val), st |-> CacheInsert(loaded.st, path, loaded.res.val)]
  ELSE [res |-> Ok(None), st |-> loaded.st]

\* A faulty variant, for comparison: an address already in the cache is not
\* handed out again.
Lookup_HitExcludes(path, cfg, root_path, st, via) ==
  IF starts_with(path, "data:") THEN [res |-> Ok(None), st |-> st]
  ELSE IF path \in DOMAIN st.cache THEN [res |-> Ok(None), st |-> st]
  ELSE Loaded(path, load_path(path, cfg, root_path, st, via))

\* Lines 162-180: get, on the path query_replacer has returned.
Lookup(path, cfg, root_path, st, via) ==
  IF starts_with(path, "data:") THEN [res |-> Ok(None), st |-> st]
  ELSE IF path \in DOMAIN st.cache THEN [res |-> Ok(st.cache[path]), st |-> st]
  ELSE Loaded(path, load_path(path, cfg, root_path, st, via))

get(path, cfg, root_path, st, via) == Lookup(query_replacer(path), cfg, root_path, st, via)

(***************************************************************************)
(* inline_css and inline_css_path.                                         *)
(***************************************************************************)
\* comment_remover, /\*[^*]*\*+(?:[^/*][^*]*\*+)*/ -> "": from "/*" to the
\* first "*/" that follows it.
RECURSIVE comment_remover(_, _)
comment_remover(s, i) ==
  IF i > Len(s) THEN ""
  ELSE IF StartsAt(s, i, "/*") /\ Find(s, i + 2, "*/") > 0
       THEN comment_remover(s, Find(s, i + 2, "*/") + 2)
  ELSE Ch(s, i) \o comment_remover(s, i + 1)

\* import_finder, (@import)(\s*.*?); at position i: the position of the ";"
\* that ends the match, or 0.
ImportEnd(s, i) ==
  IF StartsAt(s, i, "@import") THEN CharOnLine(s, WsEnd(s, i + 7), ";") ELSE 0

\* A faulty variant, for comparison: the chain without the two replacements of the parentheses.
ImportUrl_KeepsParens(cap) ==
  LET t == trim(cap)
      u == IF starts_with(t, "url") THEN replace(t, "url", "") ELSE t
  IN replace(replace(replace(replace(u, "'", ""), "\"", ""), "}", ""), ";", "")

\* The chain of str::replace calls of lines 157-167.
ImportUrl(cap) ==
  LET t == trim(cap)
      u == IF starts_with(t, "url") THEN replace(t, "url", "") ELSE t
  IN replace(replace(replace(replace(replace(replace(u,
       "'", ""), "\"", ""), "}", ""), "(", ""), ")", ""), ";", "")

\* match_url.split(' ').next().unwrap()
FirstWord(t) == IF Find(t, 1, " ") = 0 THEN t ELSE SubSeq(t, 1, Find(t, 1, " ") - 1)

\* Lines 170-179: where an @import of css_url in the CSS at css_path leads.
ImportAddress(css_path, css_url, root_path) ==
  IF IsUrl(css_path) THEN UrlJoin(css_path, css_url) ELSE PathJoin(root_path, css_url)

\* Lines 204-216: where a url(ref) in the CSS at css_path leads.
UrlAddress(css_path, ref, root_path) ==
  IF IsUrl(css_path) THEN UrlJoin(css_path, ref)
  ELSE IF IsUrl(ref) THEN ref
  ELSE PathJoin(root_path, ref)

Quotes == {"\"", "'"}

\* The first position >= b of a quote or a ")", the characters the capture
\* [^"')]+? cannot take, or 0.
RECURSIVE CaptureStop(_, _)
CaptureStop(s, b) ==
  IF b > Len(s) THEN 0
  ELSE IF Ch(s, b) \in Quotes \cup {")"} THEN b ELSE CaptureStop(s, b + 1)

\* The least c > b with only white space between c and position e.
RECURSIVE LazyEnd(_, _, _)
LazyEnd(s, c, e) == IF WsEnd(s, c) = e THEN c ELSE LazyEnd(s, c + 1, e)

\* ([^"')]+?)["']?\s*?\) with the capture starting at b: the capture's end
\* (exclusive) and the position of the closing ")", or 0 and 0.
CaptureAt(s, b) ==
  LET e == CaptureStop(s, b)
  IN IF e = 0 \/ e = b THEN [cap_end |-> 0, close |-> 0]
     ELSE IF Ch(s, e) = ")" THEN [cap_end |-> LazyEnd(s, b + 1, e), close |-> e]
     ELSE IF WsEnd(s, e + 1) <= Len(s) /\ Ch(s, WsEnd(s, e + 1)) = ")"
          THEN [cap_end |-> e, close |-> WsEnd(s, e + 1)]
     ELSE [cap_end |-> 0, close |-> 0]

\* \s*?["']? before the capture, in the order a backtracking match tries:
\* w white-space characters skipped, the fewest first, then a quote taken
\* before a quote left.  a is the position after "(", ws the end of the
\* white space there.
RECURSIVE CaptureFrom(_, _, _, _)
CaptureFrom(s, a, w, ws) ==
  LET quoted == CaptureAt(s, a + w + 1)
      plain == CaptureAt(s, a + w)
  IN IF a + w > ws THEN [cap |-> 0, cap_end |-> 0, close |-> 0]
     ELSE IF a + w = ws /\ ws <= Len(s) /\ Ch(s, ws) \in Quotes /\ quoted.close > 0
          THEN [cap |-> a + w + 1, cap_end |-> quoted.cap_end, close |-> quoted.close]
     ELSE IF plain.close > 0
          THEN [cap |-> a + w, cap_end |-> plain.cap_end, close |-> plain.close]
     ELSE CaptureFrom(s, a, w + 1, ws)

\* url_finder, url\s*?\(\s*?["']?([^"')]+?)["']?\s*?\) at position i.
UrlMatch(s, i) ==
  LET open == WsEnd(s, i + 3)
  IN IF StartsAt(s, i, "url") /\ open <= Len(s) /\ Ch(s, open) = "("
     THEN CaptureFrom(s, open + 1, 0, WsEnd(s, open + 1))
     ELSE [cap |-> 0, cap_end |-> 0, close |-> 0]

RECURSIVE inline_css_path(_, _, _, _, _), inline_css(_, _, _, _, _)
RECURSIVE ImportPass(_, _, _, _, _, _, _), UrlPass(_, _, _, _, _, _)

\* A replacement, or a character no match covers, before the rest of the
\* text replace_all produces.
Prepend(text, rest) == [rest EXCEPT !.text = text \o @]

\* Lines 180-197: the text that replaces an @import, given what
\* inline_css_path has returned for it.
ImportSpliced(match_url, css_url, inner) ==
  IF ~inner.res.ok THEN [text |-> "", st |-> inner.st, err |-> Some(inner.res.err)]
  ELSE IF Find(match_url, 1, " ") > 0
  THEN [text |-> "@media " \o replace(match_url, css_url \o " ", "") \o "{"
                 \o (IF inner.res.val.some THEN compress_css(inner.res.val.val) ELSE "")
                 \o "}",
        st |-> inner.st, err |-> None]
  ELSE [text |-> IF inner.res.val.some THEN compress_css(inner.res.val.val) ELSE "",
        st |-> inner.st, err |-> None]

\* Lines 168-180, on the match_url the replace chain has produced.
ImportResolved(match_url, css_path, cfg, root_path, st) ==
  ImportSpliced(match_url, FirstWord(match_url),
                inline_css_path(ImportAddress(css_path, FirstWord(match_url), root_path),
                                cfg, root_path, st,
                                Via("import", css_path, FirstWord(match_url))))

\* The closure of lines 155-198 on one @import whose second group is cap.
ImportOne(cap, css_path, cfg, root_path, st) ==
  ImportResolved(ImportUrl(cap), css_path, cfg, root_path, st)

\* replace_all goes on after the ";" at position end, with the cache the
\* closure has left and is_alright set by an Err.
ImportRest(s, end, one, css_path, cfg, root_path, is_alright) ==
  Prepend(one.text,
          ImportPass(s, end + 1, css_path, cfg, root_path, one.st,
                     IF one.err.some THEN one.err ELSE is_alright))

\* import_finder.replace_all from position i on; is_alright holds the last
\* error an import has returned.
ImportPass(s, i, css_path, cfg, root_path, st, is_alright) ==
  IF i > Len(s) THEN [text |-> "", st |-> st, err |-> is_alright]
  ELSE IF ImportEnd(s, i) > 0
  THEN ImportRest(s, ImportEnd(s, i),
                  ImportOne(SubSeq(s, i + 7, ImportEnd(s, i) - 1), css_path, cfg, root_path, st),
                  css_path, cfg, root_path, is_alright)
  ELSE Prepend(Ch(s, i), ImportPass(s, i + 1, css_path, cfg, root_path, st, is_alright))

\* Lines 217-228: the text that replaces a url(ref), given what get has
\* returned for url_path.
UrlSpliced(ref, url_path, got) ==
  IF got.res.ok /\ got.res.val.some
  THEN [text |-> "url('" \o (IF ends_with(url_path, ".css")
                             THEN compress_css(got.res.val.val)
                             ELSE got.res.val.val) \o "')",
        st |-> got.st]
  ELSE [text |-> "url('" \o ref \o "')", st |-> got.st]

UrlResolved(ref, url_path, css_path, cfg, root_path, st) ==
  UrlSpliced(ref, url_path, get(url_path, cfg, root_path, st, Via("url", css_path, ref)))

\* The closure of lines 200-229 on one url(...) match.
UrlOne(whole, ref, css_path, cfg, root_path, st) ==
  IF starts_with(trim(ref), "data:") THEN [text |-> whole, st |-> st]
  ELSE UrlResolved(ref, UrlAddress(css_path, ref, root_path), css_path, cfg, root_path, st)

UrlRest(s, close, one, css_path, cfg, root_path) ==
  Prepend(one.text, UrlPass(s, close + 1, css_path, cfg, root_path, one.st))

UrlAt(s, i, m, css_path, cfg, root_path, st) ==
  IF m.close > 0
  THEN UrlRest(s, m.close,
               UrlOne(SubSeq(s, i, m.close), SubSeq(s, m.cap, m.cap_end - 1),
                      css_path, cfg, root_path, st),
               css_path, cfg, root_path)
  ELSE Prepend(Ch(s, i), UrlPass(s, i + 1, css_path, cfg, root_path, st))

\* url_finder.replace_all from position i on.
UrlPass(s, i, css_path, cfg, root_path, st) ==
  IF i > Len(s) THEN [text |-> "", st |-> st]
  ELSE UrlAt(s, i, UrlMatch(s, i), css_path, cfg, root_path, st)

\* Lines 230-233: compress_css on the rewritten text, and is_alright.
Minified(is_alright, urls) ==
  [res |-> IF is_alright.some THEN Err(is_alright.val) ELSE Ok(Some(compress_css(urls.text))),
   st |-> urls.st]

\* Lines 200-229 follow lines 155-198 whether or not an import has failed.
AfterImports(imports, css_path, cfg, root_path) ==
  Minified(imports.err, UrlPass(imports.text, 1, css_path, cfg, root_path, imports.st))

inline_css(css, css_path, cfg, root_path, st) ==
  IF ~css.some THEN [res |-> Ok(None), st |-> st]
  ELSE AfterImports(ImportPass(comment_remover(css.val, 1), 1, css_path, cfg, root_path,
                               st, None),
                    css_path, cfg, root_path)

\* inline_css on what get has returned; "?" returns an Err of get.
InlineFetched(css, css_path, cfg, root_path) ==
  IF ~css.res.ok THEN css
  ELSE inline_css(css.res.val, css_path, cfg, root_path, css.st)

inline_css_path(css_path, cfg, root_path, st, via) ==
  InlineFetched(get(css_path, cfg, root_path, st, via), css_path, cfg, root_path)

(***************************************************************************)
(* The document: a sequence of element nodes, in document order.           *)
(***************************************************************************)
NoAttrs == [a \in {} |-> ""]
Img(src) == [tag |-> "img", attrs |-> ("src" :> src), text |-> ""]
Icon(href) == [tag |-> "link", attrs |-> ("rel" :> "icon") @@ ("href" :> href), text |-> ""]
Script(src) == [tag |-> "script", attrs |-> ("src" :> src), text |-> ""]
Stylesheet(href) ==
  [tag |-> "link", attrs |-> ("rel" :> "stylesheet") @@ ("href" :> href), text |-> ""]
Style(text) == [tag |-> "style", attrs |-> NoAttrs, text |-> text]
Styled(tag, style) == [tag |-> tag, attrs |-> ("style" :> style), text |-> ""]

Elements ==
  { Img("i.png"), Img("i.png#x"), Img("i.png?v=1"), Img("m.png"), Img("big.png"),
    Img("http://h/i.png"), Img("http://h/e.png"),
    Icon("f.woff"), Icon("http://h/f.woff?v=1"),
    Script("s.js"), Script("m.js"),
    Stylesheet("a.css"), Stylesheet("css/c.css"), Stylesheet("u.css"),
    Stylesheet("http://h/css/r.css"), Stylesheet("m.css"),
    Style("p{background:url(i.png)}"),
    Styled("div", "background:url(m.png)") }

Configs ==
  [inline_fonts : BOOLEAN, inline_remote : BOOLEAN, max_inline_size : {SmallMax, LargeMax}]

Documents == UNION {[1..n -> Elements] : n \in 1..MaxElems}

\* The nodes of a parsed document: element k gets node id k.
Parsed(d) == [k \in 1..Len(d) |-> [id |-> k, tag |-> d[k].tag, attrs |-> d[k].attrs,
                                     text |-> d[k].text]]

IconRels == {"icon", "shortcut icon", "apple-touch-icon", "apple-touch-startup-image"}

\* video, img, link[rel=icon], link[rel="shortcut icon"], ...
MediaSelected(n) ==
  \/ n.tag \in {"video", "img"}
  \/ n.tag = "link" /\ "rel" \in DOMAIN n.attrs /\ n.attrs["rel"] \in IconRels

\* script, style, link, *:not(svg)[style]
ScriptLinkSelected(n) ==
  \/ n.tag \in {"script", "style", "link"}
  \/ n.tag # "svg" /\ "style" \in DOMAIN n.attrs

\* The first position >= i of a node the media selector matches, or 0.
RECURSIVE NextMedia(_, _)
NextMedia(d, i) ==
  IF i > Len(d) THEN 0 ELSE IF MediaSelected(d[i]) THEN i ELSE NextMedia(d, i + 1)

\* The ids of the nodes a selector matches, in document order.
RECURSIVE SelectIds(_, _)
SelectIds(d, i) ==
  IF i > Len(d) THEN <<>>
  ELSE IF ScriptLinkSelected(d[i]) THEN <<d[i].id>> \o SelectIds(d, i + 1)
  ELSE SelectIds(d, i + 1)

PositionOf(d, id) == CHOOSE k \in 1..Len(d) : d[k].id = id
FreshId(d) == 1 + CHOOSE m \in {d[k].id : k \in 1..Len(d)} : \A k \in 1..Len(d) : d[k].id <= m

\* attributes.insert(attr, value)
WithAttr(n, attr, value) ==
  [n EXCEPT !.attrs = [a \in DOMAIN @ \cup {attr} |-> IF a = attr THEN value ELSE @[a]]]

\* A faulty variant, for comparison: the node is detached and the new
\* element appended as the last node.
Replaced_AtEnd(d, id, tag, text) ==
  Append(SubSeq(d, 1, PositionOf(d, id) - 1) \o SubSeq(d, PositionOf(d, id) + 1, Len(d)),
         [id |-> FreshId(d), tag |-> tag, attrs |-> NoAttrs, text |-> text])

\* node.insert_after(replacement_node); node.detach(): a new element with the
\* given text stands where the node with this id stood.
Replaced(d, id, tag, text) ==
  [d EXCEPT ![PositionOf(d, id)] =
     [id |-> FreshId(d), tag |-> tag, attrs |-> NoAttrs, text |-> text]]

St == [cache |-> cache, log |-> log]

\* The address harness is not in use.
ResIdle == res_path = "" /\ res_ref = "" /\ import_addr = None /\ url_addr = None

\* No call of inline_css_path is being followed step by step.
NoCall == [css_path |-> "", via |-> Via("", "", "")]
ImpIdle ==
  /\ entry = "" /\ stack = <<>> /\ call = NoCall /\ ret = Ok(None) /\ imp_pc = "idle"

Init ==
  /\ config \in Configs
  /\ html \in {Parsed(d) : d \in Documents}
  /\ doc = html
  /\ cache = [k \in {} |-> None]
  /\ log = <<>>
  /\ pc = "media"
  /\ idx = 1
  /\ targets = <<>>
  /\ result = "running"
  /\ css_in = "" /\ css_once = "" /\ css_twice = "" /\ css_pc = 0
  /\ ImpIdle
  /\ ResIdle

\* A Result's Err leaves the pass through "?" or "return Err(e)".
Failed(st) ==
  /\ cache' = st.cache
  /\ log' = st.log
  /\ pc' = "done"
  /\ result' = "err"
  /\ UNCHANGED <<doc, idx, targets>>

\* One iteration of inline_base64's loop, on the next selected node.
InlineBase64 ==
  /\ pc = "media"
  /\ NextMedia(doc, idx) > 0
  /\ LET k == NextMedia(doc, idx)
         node == doc[k]
         attr == IF node.tag = "link" THEN "href" ELSE "src"
         got == get(node.attrs[attr], config, Root, St, Via("media", Root, node.attrs[attr]))
     IN IF attr \notin DOMAIN node.attrs
        THEN idx' = k + 1 /\ UNCHANGED <<doc, cache, log, pc, targets, result>>
        ELSE IF ~got.res.ok THEN Failed(got.st)
        ELSE /\ doc' = IF got.res.val.some
                       THEN [doc EXCEPT ![k] = WithAttr(node, attr, got.res.val.val)]
                       ELSE doc
             /\ cache' = got.st.cache
             /\ log' = got.st.log
             /\ idx' = k + 1
             /\ UNCHANGED <<pc, targets, result>>
  /\ UNCHANGED <<config, html, cssVars, impVars, resVars>>

\* inline_base64 returns Ok(()); inline_script_link collects its targets.
CollectTargets ==
  /\ pc = "media"
  /\ NextMedia(doc, idx) = 0
  /\ pc' = "script"
  /\ targets' = SelectIds(doc, 1)
  /\ idx' = 1
  /\ UNCHANGED <<config, html, doc, cache, log, result, cssVars, impVars, resVars>>

Target == doc[PositionOf(doc, targets[idx])]
AtTarget == pc = "script" /\ idx <= Len(targets)

\* What every arm of the match does with the Result of its inlining call:
\* Err returns, Ok(Some) replaces the node, Ok(None) leaves it.
Rewrite(out, tag) ==
  IF ~out.res.ok THEN Failed(out.st)
  ELSE /\ doc' = IF out.res.val.some
                 THEN Replaced(doc, targets[idx], tag, out.res.val.val)
                 ELSE doc
       /\ cache' = out.st.cache
       /\ log' = out.st.log
       /\ idx' = idx + 1
       /\ UNCHANGED <<pc, targets, result>>

Skip == idx' = idx + 1 /\ UNCHANGED <<doc, cache, log, pc, targets, result>>

\* "script" => ...
InlineScript ==
  /\ AtTarget
  /\ Target.tag = "script"
  /\ IF "src" \in DOMAIN Target.attrs
     THEN Rewrite(get(Target.attrs["src"], config, Root, St,
                      Via("script", Root, Target.attrs["src"])), "script")
     ELSE Skip
  /\ UNCHANGED <<config, html, cssVars, impVars, resVars>>

\* "style" => ...
InlineStyle ==
  /\ AtTarget
  /\ Target.tag = "style"
  /\ Rewrite(inline_css(Some(Target.text), Root, config, Root, St), "style")
  /\ UNCHANGED <<config, html, cssVars, impVars, resVars>>

\* "link" => ...
InlineLink ==
  /\ AtTarget
  /\ Target.tag = "link"
  /\ IF /\ "rel" \in DOMAIN Target.attrs
        /\ Target.attrs["rel"] = "stylesheet"
        /\ "href" \in DOMAIN Target.attrs
     THEN Rewrite(inline_css_path(Target.attrs["href"], config, Root, St,
                                  Via("link", Root, Target.attrs["href"])), "style")
     ELSE Skip
  /\ UNCHANGED <<config, html, cssVars, impVars, resVars>>

\* _ => ...: an element with a style attribute.
InlineStyleAttr ==
  /\ AtTarget
  /\ Target.tag \notin {"script", "style", "link"}
  /\ LET out == inline_css(Some(Target.attrs["style"]), Root, config, Root, St)
     IN IF "style" \notin DOMAIN Target.attrs THEN Skip
        ELSE IF ~out.res.ok THEN Failed(out.st)
        ELSE /\ doc' = IF out.res.val.some
                       THEN [doc EXCEPT ![PositionOf(doc, targets[idx])] =
                               WithAttr(Target, "style", out.res.val.val)]
                       ELSE doc
             /\ cache' = out.st.cache
             /\ log' = out.st.log
             /\ idx' = idx + 1
             /\ UNCHANGED <<pc, targets, result>>
  /\ UNCHANGED <<config, html, cssVars, impVars, resVars>>

\* inline_script_link returns Ok(()) and inline_html_string Ok(html).
Finish ==
  /\ pc = "script"
  /\ idx > Len(targets)
  /\ pc' = "done"
  /\ result' = "ok"
  /\ UNCHANGED <<config, html, doc, cache, log, idx, targets, cssVars, impVars, resVars>>

Next ==
  \/ InlineBase64
  \/ CollectTargets
  \/ InlineScript
  \/ InlineStyle
  \/ InlineLink
  \/ InlineStyleAttr
  \/ Finish

Spec == Init /\ [][Next]_vars

(***************************************************************************)
(* The specification of the compress_css harness.                          *)
(***************************************************************************)
InitCss ==
  /\ CssInit
  /\ config = [inline_fonts |-> TRUE, inline_remote |-> TRUE, max_inline_size |-> LargeMax]
  /\ html = <<>> /\ doc = <<>>
  /\ cache = [k \in {} |-> None]
  /\ log = <<>>
  /\ pc = "done" /\ idx = 1 /\ targets = <<>> /\ result = "ok"
  /\ ImpIdle
  /\ ResIdle

NextCss ==
  \/ Minify /\ UNCHANGED <<passVars, impVars, resVars>>
  \/ MinifyAgain /\ UNCHANGED <<passVars, impVars, resVars>>

SpecCss == InitCss /\ [][NextCss]_vars

(***************************************************************************)
(* The recursion of inline_css_path and inline_css, one call and one       *)
(* return at a time.  inline_css_path calls get and inline_css; the        *)
(* closure of import_finder.replace_all calls inline_css_path for every    *)
(* @import it meets, before replace_all goes on to the next match.         *)
(***************************************************************************)
StylesheetRefs ==
  {"a.css", "css/c.css", "u.css", "http://h/css/r.css", "m.css",
   "t.css", "loop.css", "p.css"}

\* A call of inline_css that has not returned: the CSS after comment_remover,
\* the position replace_all has reached in it, the text produced so far,
\* is_alright, and the match_url of the @import whose call is running.
Frame(css_path, css) ==
  [css_path |-> css_path, s |-> comment_remover(css, 1), i |-> 1, out |-> "",
   err |-> None, match_url |-> ""]

Top == stack[Len(stack)]
Pop == SubSeq(stack, 1, Len(stack) - 1)
WithTop(f) == [stack EXCEPT ![Len(stack)] = f]

\* The start of the leftmost match of import_finder at or after i, or 0.
RECURSIVE NextImport(_, _)
NextImport(s, i) ==
  IF i > Len(s) THEN 0 ELSE IF ImportEnd(s, i) > 0 THEN i ELSE NextImport(s, i + 1)

\* The match_url of the match of import_finder that starts at j.
MatchUrlAt(s, j) == ImportUrl(SubSeq(s, j + 7, ImportEnd(s, j) - 1))

InitImports ==
  /\ config \in Configs
  /\ entry \in StylesheetRefs
  /\ call = [css_path |-> entry, via |-> Via("link", Root, entry)]
  /\ stack = <<>>
  /\ ret = Ok(None)
  /\ imp_pc = "call"
  /\ html = <<>> /\ doc = <<>>
  /\ cache = [k \in {} |-> None]
  /\ log = <<>>
  /\ pc = "script" /\ idx = 1 /\ targets = <<>> /\ result = "running"
  /\ css_in = "" /\ css_once = "" /\ css_twice = "" /\ css_pc = 0
  /\ ResIdle

\* inline_css_path: get, then inline_css on what get has returned.  Some(css)
\* enters css.map; None, or an Err of get, returns at once.
CallInlineCssPath ==
  /\ imp_pc = "call"
  /\ Len(stack) < MaxDepth
  /\ LET got == get(call.css_path, config, Root, St, call.via)
     IN /\ cache' = got.st.cache
        /\ log' = got.st.log
        /\ IF got.res.ok /\ got.res.val.some
           THEN /\ stack' = Append(stack, Frame(call.css_path, got.res.val.val))
                /\ imp_pc' = "scan"
                /\ ret' = ret
           ELSE /\ ret' = got.res
                /\ imp_pc' = "return"
                /\ stack' = stack
  /\ UNCHANGED <<entry, call>>

\* import_finder.replace_all reaches its next match: the closure works the
\* address out and calls inline_css_path.
ScanImport ==
  /\ imp_pc = "scan"
  /\ NextImport(Top.s, Top.i) > 0
  /\ LET j == NextImport(Top.s, Top.i)
         match_url == MatchUrlAt(Top.s, j)
         css_url == FirstWord(match_url)
     IN /\ stack' = WithTop([Top EXCEPT !.out = @ \o SubSeq(Top.s, Top.i, j - 1),
                                         !.i = ImportEnd(Top.s, j) + 1,
                                         !.match_url = match_url])
        /\ call' = [css_path |-> ImportAddress(Top.css_path, css_url, Root),
                    via |-> Via("import", Top.css_path, css_url)]
  /\ imp_pc' = "call"
  /\ UNCHANGED <<entry, ret, cache, log>>

\* No @import is left: url_finder.replace_all, compress_css, and inline_css
\* returns.
ReturnInlineCss ==
  /\ imp_pc = "scan"
  /\ NextImport(Top.s, Top.i) = 0
  /\ LET out == AfterImports([text |-> Top.out \o From(Top.s, Top.i), st |-> St,
                              err |-> Top.err],
                             Top.css_path, config, Root)
     IN /\ ret' = out.res
        /\ cache' = out.st.cache
        /\ log' = out.st.log
  /\ stack' = Pop
  /\ imp_pc' = "return"
  /\ UNCHANGED <<entry, call>>

\* The closure takes what inline_css_path has returned and replace_all
\* splices it in place of the @import.
SpliceImport ==
  /\ imp_pc = "return"
  /\ stack # <<>>
  /\ LET one == ImportSpliced(Top.match_url, FirstWord(Top.match_url),
                              [res |-> ret, st |-> St])
     IN stack' = WithTop([Top EXCEPT !.out = @ \o one.text,
                                      !.err = IF one.err.some THEN one.err ELSE @])
  /\ imp_pc' = "scan"
  /\ UNCHANGED <<entry, call, ret, cache, log>>

\* The outermost call returns to inline_script_link.
ReturnToCaller ==
  /\ imp_pc = "return"
  /\ stack = <<>>
  /\ imp_pc' = "done"
  /\ UNCHANGED <<entry, stack, call, ret, cache, log>>

NextImports ==
  \/ CallInlineCssPath /\ UNCHANGED <<config, html, doc, pc, idx, targets, result, cssVars, resVars>>
  \/ ScanImport /\ UNCHANGED <<config, html, doc, pc, idx, targets, result, cssVars, resVars>>
  \/ ReturnInlineCss /\ UNCHANGED <<config, html, doc, pc, idx, targets, result, cssVars, resVars>>
  \/ SpliceImport /\ UNCHANGED <<config, html, doc, pc, idx, targets, result, cssVars, resVars>>
  \/ ReturnToCaller /\ UNCHANGED <<config, html, doc, pc, idx, targets, result, cssVars, resVars>>

\* What a step of NextImports does to imp_pc.  Every step of NextImports is
\* such a step and changes imp_pc, and one of them is enabled exactly where
\* this is: a call runs while the stack has room, a scan either meets an
\* @import or the end of the text, a return goes to the closure or to the
\* caller.
Advance ==
  \/ imp_pc = "call" /\ Len(stack) < MaxDepth /\ imp_pc' \in {"scan", "return"}
  \/ imp_pc = "scan" /\ imp_pc' \in {"call", "return"}
  \/ imp_pc = "return" /\ imp_pc' \in {"scan", "done"}

\* The calls are made by one thread, which runs on while it has a step to
\* take: weak fairness of NextImports, stated on imp_pc.
SpecImports == InitImports /\ [][NextImports]_vars /\ WF_imp_pc(Advance)

(***************************************************************************)
(* Properties.                                                             *)
(***************************************************************************)
\* An address or reference without its query string and fragment.
StripQueryFragment(a) ==
  LET q == Find(a, 1, "?")
      h == Find(a, 1, "#")
      cut == IF q = 0 THEN h ELSE IF h = 0 THEN q ELSE IF q < h THEN q ELSE h
  IN IF cut = 0 THEN a ELSE SubSeq(a, 1, cut - 1)

Entries == 1..Len(log)
Nodes == 1..Len(html)

\* The src or href the pass resolves for a node itself, if it has one.
OwnAttr(n) == IF n.tag = "link" THEN "href" ELSE "src"
HasOwnRef(n) ==
  /\ OwnAttr(n) \in DOMAIN n.attrs
  /\ \/ MediaSelected(n)
     \/ n.tag = "script"
     \/ n.tag = "link" /\ "rel" \in DOMAIN n.attrs /\ n.attrs["rel"] = "stylesheet"
OwnRef(n) == n.attrs[OwnAttr(n)]
OwnBy(n) == IF MediaSelected(n) THEN "media" ELSE n.tag

\* The reads and requests made for a node's own src or href.
OwnFetches(n) ==
  {i \in Entries : log[i].by = OwnBy(n) /\ log[i].ref = OwnRef(n)}
FetchFailed(n) == HasOwnRef(n) /\ \E i \in OwnFetches(n) : log[i].outcome = "error"

\* get has looked the node's own reference up: its key is cached, or its
\* load has failed.
LookedUp(n) == query_replacer(OwnRef(n)) \in DOMAIN cache \/ FetchFailed(n)

\* C1: within one pass each distinct normalized address (absolute URL or
\* absolute file path, query and fragment stripped) is fetched at most once,
\* whatever the outcome of the fetch and whichever reference led to it.
\* Stated on the addresses as read or requested: two fetches of one and the
\* same address are two fetches of one normalized address, however the
\* query string is treated.
C1_EachAddressFetchedOnce ==
  \A i, j \in Entries : log[i].addr = log[j].addr => i = j

NestedFetchFailed ==
  \E i \in Entries : log[i].by \in {"import", "url"} /\ log[i].outcome = "error"

C3_FailedFetchLeavesElement ==
  /\ \A k \in Nodes : FetchFailed(html[k]) => doc[k] = html[k]
  /\ pc = "done" =>
       /\ result = "ok"
       /\ \A k \in Nodes : HasOwnRef(html[k]) => LookedUp(html[k])

C3_Witness ==
  /\ pc = "done"
  /\ \E k, j \in Nodes :
       /\ k < j
       /\ FetchFailed(html[k])
       /\ html[k].tag = "link" /\ html[k].attrs["rel"] = "stylesheet"
       /\ HasOwnRef(html[j]) /\ doc[j] # html[j]

\* The directory of a path: the text before its last "/".
Dirname(p) == SubSeq(p, 1, LastIndex(p, Len(p), "/") - 1)

\* A reference resolved against the location of the CSS that holds it.
Beside(base, ref) ==
  IF IsUrl(base) THEN UrlJoin(base, ref)
  ELSE PathJoin(Dirname(PathJoin(Root, base)), ref)

\* C4: a relative @import or url() reference inside a stylesheet is resolved
\* against the stylesheet's own location: URL-joined to its URL, or joined
\* to the directory that contains the stylesheet file.
C4_ResolvedBesideStylesheet ==
  \A i \in Entries :
    (/\ log[i].by \in {"import", "url"}
     /\ log[i].base # Root
     /\ ~IsUrl(log[i].ref) /\ ~starts_with(log[i].ref, "/"))
    => log[i].addr = Beside(log[i].base, log[i].ref)

\* a.css and b.css have been fetched and kept as content.
\* Both files of the example are within the size limit of the configuration.
ImportExampleFits ==
  /\ Len(Files["/r/a.css"]) <= config.max_inline_size
  /\ Len(Files["/r/b.css"]) <= config.max_inline_size

IsImportExample(n) ==
  n.tag = "link" /\ n.attrs = (("rel" :> "stylesheet") @@ ("href" :> "a.css"))

\* C5 as claimed: a.css, `@import url(b.css);`, with b.css `body{color:red;}`,
\* inlines to exactly `body{color:red}`.
C5_ImportInlinesWithoutSemicolon ==
  \A k \in Nodes :
    (pc = "done" /\ IsImportExample(html[k]) /\ ImportExampleFits)
    => doc[k].tag = "style" /\ doc[k].text = "body{color:red}"

\* C5 as amended: a.css, `@import url(b.css);`, with b.css `body{color:red;}`,
\* inlines to exactly `body{color:red;}`: no @import statement and no comment
\* text is left, and the semicolon before "}" stays.
C5_ImportInlined ==
  \A k \in Nodes :
    (pc = "done" /\ IsImportExample(html[k]) /\ ImportExampleFits)
    => /\ doc[k].tag = "style"
       /\ doc[k].text = "body{color:red;}"
       /\ Find(doc[k].text, 1, "@import") = 0
       /\ Find(doc[k].text, 1, "/*") = 0

C5_Witness ==
  /\ pc = "done" /\ ImportExampleFits
  /\ \E k \in Nodes : IsImportExample(html[k]) /\ doc[k].tag = "style"

\* C6: minification is idempotent: compress_css(compress_css(s)) =
\* compress_css(s) for every CSS string s.
C6_MinifyIdempotent == css_pc = 2 => css_twice = css_once

HasFontExtension(a) ==
  \E f \in FONT_EXTENSIONS : ends_with(StripQueryFragment(a), f)

\* C7: with inline_fonts = false nothing is read or requested for an address
\* that, query and fragment stripped, has a font extension, and the element
\* that refers to it is left as it was.
C7_FontsNeverFetched ==
  ~config.inline_fonts =>
    /\ \A i \in Entries : ~HasFontExtension(log[i].addr)
    /\ \A k \in Nodes :
         (HasOwnRef(html[k]) /\ HasFontExtension(OwnRef(html[k]))) => doc[k] = html[k]

UrlValued(n) == \E a \in {"src", "href"} \cap DOMAIN n.attrs : IsUrl(n.attrs[a])

\* C8: with inline_remote = false no HTTP GET is ever issued, and every
\* element whose src or href is an absolute URL is left as it was.
C8_NoRemoteFetch ==
  ~config.inline_remote =>
    /\ \A i \in Entries : log[i].kind # "http"
    /\ \A k \in Nodes : UrlValued(html[k]) => doc[k] = html[k]

C8_Witness ==
  /\ pc = "done" /\ ~config.inline_remote
  /\ \E k, j \in Nodes :
       /\ UrlValued(html[k]) /\ html[k].tag = "link" /\ html[k].attrs["rel"] = "stylesheet"
       /\ UrlValued(html[j]) /\ html[j].tag = "img"

\* C9: an asset of more than max_inline_size bytes is excluded (get returns
\* and caches None) and the element that refers to it is left as it was; an
\* asset of at most max_inline_size bytes is not excluded by the size check.
C9_SizeLimit ==
  /\ \A i \in Entries :
       log[i].outcome \in {"content", "toobig"} =>
         IF log[i].size > config.max_inline_size
         THEN /\ log[i].outcome = "toobig"
              /\ log[i].key \in DOMAIN cache /\ ~cache[log[i].key].some
         ELSE /\ log[i].outcome = "content"
              /\ log[i].key \in DOMAIN cache /\ cache[log[i].key].some
  /\ \A k \in Nodes :
       (HasOwnRef(html[k]) /\ \E i \in OwnFetches(html[k]) :
                                 log[i].size > config.max_inline_size)
       => doc[k] = html[k]

C9_Witness ==
  /\ pc = "done"
  /\ \E k, j \in Nodes :
       /\ HasOwnRef(html[k])
       /\ \E i \in OwnFetches(html[k]) : log[i].size = config.max_inline_size + 1
       /\ doc[k] = html[k]
       /\ HasOwnRef(html[j])
       /\ \E i \in OwnFetches(html[j]) : log[i].size = config.max_inline_size
       /\ doc[j] # html[j]

NoQueryOrFragment(a) == Find(a, 1, "?") = 0 /\ Find(a, 1, "#") = 0

\* C10: get strips the query string and the fragment before the cache lookup
\* and the fetch, so references that differ only in query string or fragment
\* share a cache key and lead to a single fetch.
C10_QueryAndFragmentStripped ==
  /\ \A key \in DOMAIN cache : NoQueryOrFragment(key)
  /\ \A i \in Entries : NoQueryOrFragment(log[i].key)
  /\ \A i, j \in Entries :
       (/\ log[i].by = log[j].by /\ log[i].base = log[j].base
        /\ log[i].ref # log[j].ref
        /\ StripQueryFragment(log[i].ref) = StripQueryFragment(log[j].ref))
       => i = j


(***************************************************************************)
(* The addresses the two closures of inline_css compute for one reference  *)
(* in one CSS: lines 156-179 for `@import url(ref);`, lines 204-216 for    *)
(* `url(ref)`.                                                             *)
(***************************************************************************)
\* css_path of a <style> element or a style attribute (the root), of local
\* stylesheets as a link and as an @import name them, and of a remote one.
CssLocations == {Root, "a.css", "css/c.css", "/r/b.css", "http://h/css/r.css"}

References ==
  {"b.css", "i.png", "img/i.png", "/r/i.png", "/i.png", "http://h/i.png",
   "http://h/css/n.css"}

InitResolve ==
  /\ res_path \in CssLocations
  /\ res_ref \in References
  /\ import_addr = None
  /\ url_addr = None
  /\ config = [inline_fonts |-> TRUE, inline_remote |-> TRUE, max_inline_size |-> LargeMax]
  /\ html = <<>> /\ doc = <<>>
  /\ cache = [k \in {} |-> None]
  /\ log = <<>>
  /\ pc = "done" /\ idx = 1 /\ targets = <<>> /\ result = "ok"
  /\ css_in = "" /\ css_once = "" /\ css_twice = "" /\ css_pc = 0
  /\ ImpIdle

\* The closure of import_finder.replace_all on `@import url(ref);`, up to
\* the url_path it hands to inline_css_path.
ResolveImport ==
  /\ res_path # ""
  /\ ~import_addr.some
  /\ LET s == "@import url(" \o res_ref \o ");"
     IN import_addr' = Some(ImportAddress(res_path, FirstWord(MatchUrlAt(s, 1)), Root))
  /\ UNCHANGED <<res_path, res_ref, url_addr>>

\* The closure of url_finder.replace_all on `url(ref)`, up to the url_path
\* it hands to get.
ResolveUrl ==
  /\ res_path # ""
  /\ ~url_addr.some
  /\ LET s == "url(" \o res_ref \o ")"
         m == UrlMatch(s, 1)
     IN url_addr' = Some(UrlAddress(res_path, SubSeq(s, m.cap, m.cap_end - 1), Root))
  /\ UNCHANGED <<res_path, res_ref, import_addr>>

NextResolve ==
  \/ ResolveImport /\ UNCHANGED <<passVars, cssVars, impVars>>
  \/ ResolveUrl /\ UNCHANGED <<passVars, cssVars, impVars>>

SpecResolve == InitResolve /\ [][NextResolve]_vars

(***************************************************************************)
(* The import graph: the addresses a pass asks inline_css_path for, with   *)
(* an edge from a stylesheet that get returns content for to every address *)
(* the closure of its @import statements calls inline_css_path with.       *)
(***************************************************************************)
EmptySt == [cache |-> [k \in {} |-> None], log |-> <<>>]

\* What get returns for css_path in the configuration of the pass.
FetchedCss(css_path) == get(css_path, config, Root, EmptySt, Via("", "", "")).res
Fetchable(css_path) == FetchedCss(css_path).ok /\ FetchedCss(css_path).val.some

\* The addresses of the @import statements of s from position i on, for the
\* CSS at css_path.
RECURSIVE ImportsFrom(_, _, _)
ImportsFrom(css_path, s, i) ==
  IF NextImport(s, i) = 0 THEN {}
  ELSE {ImportAddress(css_path, FirstWord(MatchUrlAt(s, NextImport(s, i))), Root)}
       \cup ImportsFrom(css_path, s, ImportEnd(s, NextImport(s, i)) + 1)

ImportsOf(css_path) ==
  IF Fetchable(css_path)
  THEN ImportsFrom(css_path, comment_remover(FetchedCss(css_path).val.val, 1), 1)
  ELSE {}

Max(S) == IF S = {} THEN 0 ELSE CHOOSE m \in S : \A n \in S : n <= m

\* The number of addresses on the longest chain of imports that starts at
\* css_path, followed for at most fuel addresses.
RECURSIVE ChainLen(_, _)
ChainLen(css_path, fuel) ==
  IF fuel = 0 THEN 0
  ELSE 1 + Max({ChainLen(q, fuel - 1) : q \in ImportsOf(css_path)})

\* The files and responses that hold an @import: only an address that leads
\* to one of them has an edge to follow.
Importing ==
  {f \in DOMAIN Files : Find(Files[f], 1, "@import") > 0}
  \cup {u \in DOMAIN Remote : Find(Remote[u].body, 1, "@import") > 0}

\* More addresses than a chain without a repetition can hold: the entry as
\* the document writes it, the importing files and responses under the
\* address the closure joins, and the address the last of them imports.
ChainFuel == Cardinality(Importing) + 3

\* A stylesheet the entry reaches imports itself, directly or transitively.
ImportCycle == ChainLen(entry, ChainFuel) = ChainFuel

\* The calls of inline_css_path that have not returned.
Depth == Len(stack) + (IF imp_pc = "call" THEN 1 ELSE 0)

\* C11: for an acyclic import graph the recursion of inline_css_path and
\* inline_css returns to its caller and is never deeper than the longest
\* chain of imports; when a stylesheet that was fetched imports itself,
\* directly or transitively, the outermost call never returns, cache hits
\* included.
C11_ImportRecursion ==
  /\ [](~ImportCycle => Depth <= ChainLen(entry, ChainFuel))
  /\ (~ImportCycle ~> imp_pc = "done")
  /\ [](ImportCycle => imp_pc # "done")

\* A stylesheet that imports itself has been entered MaxDepth times, after
\* two fetches: every later call was answered by the cache.
C11_Witness ==
  /\ ImportCycle
  /\ Len(stack) = MaxDepth
  /\ \A k \in 2..MaxDepth : stack[k].css_path = stack[2].css_path
  /\ Len(log) = 2


\* The node at position k is the one the parser put there.
Original(k) == doc[k].id = html[k].id /\ doc[k].tag = html[k].tag

\* The node at position k is a new element that stands for a script, style
\* or stylesheet link the loop has already visited.
Replacement(k) ==
  /\ doc[k].id > Len(html)
  /\ \/ html[k].tag = "script" /\ doc[k].tag = "script"
     \/ html[k].tag \in {"style", "link"} /\ doc[k].tag = "style"
  /\ doc[k].attrs = NoAttrs
  /\ \E j \in 1..Len(targets) : j < idx /\ targets[j] = html[k].id

\* C12: in the script/CSS phase an inlined script, style or stylesheet link
\* is replaced by exactly one new element at its own position, the other
\* nodes keep their places, the elements to process are those selected
\* before the first replacement, each visited at most once, and no new
\* element is among them.
C12_ReplacedInPlace ==
  /\ Len(doc) = Len(html)
  /\ \A k \in Nodes : Original(k) \/ Replacement(k)
  /\ \A k, j \in Nodes : doc[k].id = doc[j].id => k = j
  /\ pc \in {"script", "done"} =>
       /\ targets = SelectIds(html, 1)
       /\ \A i, j \in 1..Len(targets) : i < j => targets[i] < targets[j]
       /\ \A j \in 1..Len(targets) : targets[j] <= Len(html)
       /\ idx <= Len(targets) + 1

\* A pass has replaced a stylesheet link and a script that follows it, and
\* has left an element between or after them in place.
C12_Witness ==
  /\ pc = "done"
  /\ \E k, j \in Nodes :
       /\ k < j
       /\ html[k].tag = "link" /\ Replacement(k) /\ doc[k].text # ""
       /\ Original(j) /\ html[j].tag = "img"


\* A 2xx status, what reqwest's StatusCode::is_success tells.
IsSuccess(status) == status \in 200..299

\* The requests of the log that were answered with a status that is no success.
Refused(i) ==
  /\ log[i].kind = "http"
  /\ log[i].addr \in DOMAIN Remote
  /\ ~IsSuccess(Remote[log[i].addr].status)

\* C13: a GET answered with a non-success status is a failed request: its
\* body is never encoded, never cached as content and never inlined, and the
\* element that refers to it is left as it was.
C13_NonSuccessStatusFails ==
  /\ \A i \in Entries :
       Refused(i) =>
         /\ log[i].outcome = "error"
         /\ ~(log[i].key \in DOMAIN cache /\ cache[log[i].key].some)
  /\ \A k \in Nodes :
       (HasOwnRef(html[k]) /\ \E i \in OwnFetches(html[k]) : Refused(i))
       => doc[k] = html[k]


\* C14: @import and url() resolve one reference in one CSS to one address,
\* and a reference that is an absolute URL resolves to that URL wherever the
\* CSS is, in a local <style>, style attribute or stylesheet file too.
C14_SameAddress ==
  /\ (import_addr.some /\ url_addr.some) => import_addr.val = url_addr.val
  /\ (import_addr.some /\ IsUrl(res_ref)) => import_addr.val = res_ref
  /\ (url_addr.some /\ IsUrl(res_ref)) => url_addr.val = res_ref

====
